---- MODULE Spec2Model ----
(***************************************************************************)
(* MTP transaction engine of mtp.DeviceDirect (src/mtp/device_direct.go):  *)
(* connection state, container codec, bulk read/write, runTransaction,     *)
(* RunTransaction's teardown policy, Close, Open and Configure.            *)
(*                                                                         *)
(* The USB transport (hanwen/usb) is the environment: a transaction runs    *)
(* against a script of transfer outcomes, and an operation on the          *)
(* connection yields the set of its possible outcomes over the scripts the *)
(* device may play.  Packets are byte sequences; header fields are encoded *)
(* and decoded little-endian byte by byte.                                 *)
(***************************************************************************)
EXTENDS Integers, Sequences, FiniteSets, TLC

\* The connection: h ("d.h != nil"), claimed, session; sessTids is a history
\* variable.  The last API call: call (what was called, with which
\* arguments), pre (the connection before it), ret (the error returned),
\* rep (the response container), sink (the bytes written to dest) and wire
\* (the libusb calls it made, in order).
VARIABLES h, claimed, session, sessTids, call, pre, ret, rep, wire, sink

vars == <<h, claimed, session, sessTids, call, pre, ret, rep, wire, sink>>

(***************************************************************************)
(* Bounds of the model.                                                    *)
(***************************************************************************)
\* Max packet size reported by the device for both bulk endpoints.
PacketSize == 16
\* A call starts only while the session's counter is below this value.
MaxTid == 3
\* Read/write buffer size, in packets.
RwBufPackets == 2

(***************************************************************************)
(* Protocol constants.                                                     *)
(***************************************************************************)
usbHdrLen == 12
USB_CONTAINER_COMMAND == 1
USB_CONTAINER_DATA == 2
USB_CONTAINER_RESPONSE == 3
OC_GetDeviceInfo == 4097
OC_OpenSession == 4098
OC_CloseSession == 4099
RC_OK == 8193
RC_GeneralError == 8194
RC_SessionAlreadyOpened == 8222
rwBufSize == RwBufPackets * PacketSize

fetchMaxPacketSize == PacketSize
sendMaxPacketSize == PacketSize

(***************************************************************************)
(* Errors (Go error values).  kind: nil, usb (usb.Error), sync (SyncError),*)
(* rc (RCError, code = response code), plain (fmt.Errorf / io errors).     *)
(***************************************************************************)
Err(kind, code, msg) == [kind |-> kind, code |-> code, msg |-> msg]
NoErr == Err("nil", 0, "")
UsbError == Err("usb", 0, "transfer")
SyncError(msg) == Err("sync", 0, msg)
\* The SyncError of decodeRep, whose message names the type received.
TypeError(type) == Err("sync", type, "got type in response, want CONTAINER_RESPONSE")
RCError(code) == Err("rc", code, "")
PlainError(msg) == Err("plain", 0, msg)

(***************************************************************************)
(* Little-endian byte order (encoding/binary).                             *)
(***************************************************************************)
PutUint16(v) == <<v % 256, (v \div 256) % 256>>
PutUint32(v) == <<v % 256, (v \div 256) % 256, (v \div 65536) % 256, (v \div 16777216) % 256>>
Uint16(b, i) == b[i] + 256 * b[i + 1]
Uint32(b, i) == b[i] + 256 * b[i + 1] + 65536 * b[i + 2] + 16777216 * b[i + 3]

RECURSIVE PutParams(_)
PutParams(ps) == IF ps = <<>> THEN <<>> ELSE PutUint32(Head(ps)) \o PutParams(Tail(ps))

\* usbBulkHeader{Length, Type, Code, TransactionID} as written by binary.Write.
Header(length, type, code, tid) == [Length |-> length, Type |-> type, Code |-> code, TransactionID |-> tid]
ZeroHeader == Header(0, 0, 0, 0)
PutHeader(hd) == PutUint32(hd.Length) \o PutUint16(hd.Type) \o PutUint16(hd.Code) \o PutUint32(hd.TransactionID)
\* binary.Read of a usbBulkHeader: needs usbHdrLen bytes, else fails and leaves hd.
ReadHeader(b, hd) == IF Len(b) < usbHdrLen THEN [err |-> PlainError("unexpected EOF"), hdr |-> hd, rest |-> <<>>] ELSE [err |-> NoErr, hdr |-> Header(Uint32(b, 1), Uint16(b, 5), Uint16(b, 7), Uint32(b, 9)), rest |-> SubSeq(b, usbHdrLen + 1, Len(b))]

\* Container{Code, SessionID, TransactionID, Param}
Container(code, sid, tid, param) == [Code |-> code, SessionID |-> sid, TransactionID |-> tid, Param |-> param]
EmptyContainer == Container(0, 0, 0, <<>>)

(***************************************************************************)
(* Transport log: one entry per libusb call made by the modelled handler.  *)
(***************************************************************************)
Ev(op, ep, data, ok) == [op |-> op, ep |-> ep, data |-> data, ok |-> ok]
BulkEv(ep, data, ok) == Ev("bulk", ep, data, ok)

\* Outcome of one bulk transfer on the fetch endpoint: the bytes received
\* (n = Len(data)) and whether libusb reported an error.
Rd(data, ok) == [data |-> data, ok |-> ok]
\* The i-th outcome of a device script; a transfer the script has no outcome
\* for fails (only runs that use their script up exactly are kept).
ReadAt(reads, i) == IF i <= Len(reads) THEN reads[i] ELSE Rd(<<>>, FALSE)
SendAt(sends, i) == IF i <= Len(sends) THEN sends[i] ELSE FALSE
Min(a, b) == IF a < b THEN a ELSE b
\* The element of a one-element set: Only({F(x) : x \in {e}}) is F(e) with e
\* evaluated once.
Only(S) == CHOOSE x \in S : TRUE

(***************************************************************************)
(* Container codec.                                                        *)
(***************************************************************************)
\* sendReq: encode the command container and send it in one bulk transfer.
\* c.Param is a [5]uint32: a request with more parameters panics on the copy.
\* A header whose Length does not count the parameters (a variant of
\* sendReq; C17 rejects it).
sendReq_FixedLength(req, ok) ==
  IF Len(req.Param) > 5 THEN [err |-> Err("panic", 0, "index out of range"), wire |-> <<>>]
  ELSE LET c == Header(usbHdrLen, USB_CONTAINER_COMMAND, req.Code, req.TransactionID)
           buf == PutHeader(c) \o PutParams(req.Param)
       IN [err |-> IF ok THEN NoErr ELSE UsbError, wire |-> <<BulkEv("send", buf, ok)>>]
sendReq(req, ok) ==
  IF Len(req.Param) > 5 THEN [err |-> Err("panic", 0, "index out of range"), wire |-> <<>>]
  ELSE LET c == Header(usbHdrLen + 4 * Len(req.Param), USB_CONTAINER_COMMAND, req.Code, req.TransactionID)
           buf == PutHeader(c) \o PutParams(req.Param)
       IN [err |-> IF ok THEN NoErr ELSE UsbError, wire |-> <<BulkEv("send", buf, ok)>>]

\* fetchPacket: one bulk read of at most fetchMaxPacketSize bytes; the header
\* is split off and the remainder returned.
fetchPacket(rd, hd) ==
  IF ~rd.ok THEN [err |-> UsbError, hdr |-> hd, rest |-> <<>>]
  ELSE ReadHeader(rd.data, hd)

RECURSIVE decodeParams(_, _, _)
decodeParams(rest, i, nParam) == IF i >= nParam THEN <<>> ELSE <<Uint32(rest, 4 * i + 1)>> \o decodeParams(rest, i + 1, nParam)

\* decodeRep without the type check (a variant of decodeRep; C7 rejects it).
decodeRep_AnyType(hd, rest, rp) ==
  LET rp1 == [rp EXCEPT !.Code = hd.Code, !.TransactionID = hd.TransactionID]
      restLen == hd.Length - usbHdrLen
      nParam == IF restLen <= 0 THEN 0 ELSE restLen \div 4
      rp2 == [rp1 EXCEPT !.Param = rp1.Param \o decodeParams(rest, 0, nParam)]
  IN IF restLen > Len(rest) THEN [err |-> PlainError("header specified more bytes"), rep |-> rp1]
     ELSE IF rp2.Code # RC_OK THEN [err |-> RCError(rp2.Code), rep |-> rp2]
     ELSE [err |-> NoErr, rep |-> rp2]

\* decodeRep: type check, then code and transaction ID, then the length
\* check and the parameters, then the response code.
decodeRep(hd, rest, rp) ==
  IF hd.Type # USB_CONTAINER_RESPONSE THEN [err |-> TypeError(hd.Type), rep |-> rp]
  ELSE LET rp1 == [rp EXCEPT !.Code = hd.Code, !.TransactionID = hd.TransactionID]
           restLen == hd.Length - usbHdrLen
           nParam == IF restLen <= 0 THEN 0 ELSE restLen \div 4
           rp2 == [rp1 EXCEPT !.Param = rp1.Param \o decodeParams(rest, 0, nParam)]
       IN IF restLen > Len(rest) THEN [err |-> PlainError("header specified more bytes"), rep |-> rp1]
          ELSE IF rp2.Code # RC_OK THEN [err |-> RCError(rp2.Code), rep |-> rp2]
          ELSE [err |-> NoErr, rep |-> rp2]


(***************************************************************************)
(* Bulk read and bulk write.                                               *)
(***************************************************************************)
\* The read loop of bulkRead from script position i: out are the bytes
\* written to w, n their count as the loop adds it up, next the position
\* after the last read made.
\* A read loop that counts the short read but does not write it (a variant
\* of bulkReadLoop; C14 rejects it).
RECURSIVE bulkReadLoop_DropsShort(_, _, _, _, _)
bulkReadLoop_DropsShort(reads, i, out, n, log) ==
  LET r == ReadAt(reads, i)
      lastRead == Len(r.data)
      log1 == log \o <<BulkEv("fetch", r.data, r.ok)>>
  IN IF ~r.ok THEN [err |-> UsbError, lastRead |-> lastRead, out |-> out, n |-> n, next |-> i + 1, wire |-> log1]
     ELSE IF lastRead < rwBufSize THEN [err |-> NoErr, lastRead |-> lastRead, out |-> out, n |-> n + lastRead, next |-> i + 1, wire |-> log1]
     ELSE bulkReadLoop_DropsShort(reads, i + 1, out \o r.data, n + lastRead, log1)
RECURSIVE bulkReadLoop(_, _, _, _, _)
bulkReadLoop(reads, i, out, n, log) ==
  LET r == ReadAt(reads, i)
      lastRead == Len(r.data)
      log1 == log \o <<BulkEv("fetch", r.data, r.ok)>>
  IN IF ~r.ok THEN [err |-> UsbError, lastRead |-> lastRead, out |-> out, n |-> n, next |-> i + 1, wire |-> log1]
     ELSE IF lastRead < rwBufSize THEN [err |-> NoErr, lastRead |-> lastRead, out |-> out \o r.data, n |-> n + lastRead, next |-> i + 1, wire |-> log1]
     ELSE bulkReadLoop(reads, i + 1, out \o r.data, n + lastRead, log1)

\* Lines 509-519: the read after the loop; its bytes and its error are what
\* bulkRead returns.
nullRead(l, r) == [n |-> l.n, lastPacket |-> r.data, err |-> IF r.ok THEN NoErr ELSE UsbError, out |-> l.out, next |-> l.next + 1, wire |-> l.wire \o <<BulkEv("fetch", r.data, r.ok)>>]

\* bulkRead: the loop, then one more read when the last read was a multiple
\* of the packet size.
\* The read after the loop decided by the count of bytes written instead (a
\* variant of bulkRead; C15 rejects it).
bulkRead_ByTotal(reads, i) ==
  Only({IF l.n % fetchMaxPacketSize = 0 THEN nullRead(l, ReadAt(reads, l.next))
        ELSE [n |-> l.n, lastPacket |-> <<>>, err |-> l.err, out |-> l.out, next |-> l.next, wire |-> l.wire]
        : l \in {bulkReadLoop(reads, i, <<>>, 0, <<>>)}})
bulkRead(reads, i) ==
  Only({IF l.lastRead % fetchMaxPacketSize = 0 THEN nullRead(l, ReadAt(reads, l.next))
        ELSE [n |-> l.n, lastPacket |-> <<>>, err |-> l.err, out |-> l.out, next |-> l.next, wire |-> l.wire]
        : l \in {bulkReadLoop(reads, i, <<>>, 0, <<>>)}})

\* The write loop of bulkWrite: size bytes are still to send, pos bytes of the
\* reader r are consumed, err is the error of the last statement executed.
\* A transfer that fails transfers nothing.
RECURSIVE bulkWriteLoop(_, _, _, _, _, _, _, _, _)
bulkWriteLoop(r, size, pos, n, lastTransfer, err, sends, i, log) ==
  IF size <= 0 THEN [n |-> n, lastTransfer |-> lastTransfer, err |-> err, next |-> i, wire |-> log]
  ELSE IF pos >= Len(r) THEN [n |-> n, lastTransfer |-> lastTransfer, err |-> PlainError("EOF"), next |-> i, wire |-> log]
  ELSE LET m == Min(Min(rwBufSize, size), Len(r) - pos)
           ok == SendAt(sends, i)
           log1 == log \o <<BulkEv("send", SubSeq(r, pos + 1, pos + m), ok)>>
       IN IF ~ok THEN [n |-> n, lastTransfer |-> 0, err |-> UsbError, next |-> i + 1, wire |-> log1]
          ELSE bulkWriteLoop(r, size - m, pos + m, n + m, m, NoErr, sends, i + 1, log1)

\* Lines 474-479: a zero-length transfer, whose result is not looked at,
\* when the last chunk transferred was a multiple of the packet size.
\* The zero-length transfer decided by the payload's size instead (a variant
\* of shortPacket; C13 rejects it).
shortPacket_BySize(l, sends) ==
  IF l.n % sendMaxPacketSize = 0
  THEN [n |-> l.n, err |-> l.err, next |-> l.next + 1, wire |-> l.wire \o <<BulkEv("send", <<>>, SendAt(sends, l.next))>>]
  ELSE [n |-> l.n, err |-> l.err, next |-> l.next, wire |-> l.wire]
shortPacket(l, sends) ==
  IF l.lastTransfer % sendMaxPacketSize = 0
  THEN [n |-> l.n, err |-> l.err, next |-> l.next + 1, wire |-> l.wire \o <<BulkEv("send", <<>>, SendAt(sends, l.next))>>]
  ELSE [n |-> l.n, err |-> l.err, next |-> l.next, wire |-> l.wire]

\* bulkWrite: the header plus the first bytes in one transfer, the rest in
\* chunks, then the short packet.  (Sizes here stay below 2^32 - 12, where
\* the header's Length is size + 12.)
bulkWrite(hdr, r, size, sep, sends, i) ==
  LET cpSize == Min((IF sep THEN usbHdrLen ELSE sendMaxPacketSize) - usbHdrLen, size)
      got == Min(cpSize, Len(r))
      ok == SendAt(sends, i)
      log1 == <<BulkEv("send", PutHeader([hdr EXCEPT !.Length = size + usbHdrLen]) \o SubSeq(r, 1, got), ok)>>
  IN IF ~ok THEN [n |-> cpSize, err |-> UsbError, next |-> i + 1, wire |-> log1]
     ELSE Only({shortPacket(l, sends) : l \in {bulkWriteLoop(r, size - cpSize, got, cpSize, 0, NoErr, sends, i + 1, log1)}})

(***************************************************************************)
(* Transaction engine.                                                     *)
(***************************************************************************)
NoSession == [active |-> FALSE, sid |-> 0, tid |-> 0]
Session(sid, tid) == [active |-> TRUE, sid |-> sid, tid |-> tid]
NoSrc == [present |-> FALSE, bytes |-> <<>>]
Src(bytes) == [present |-> TRUE, bytes |-> bytes]

\* Lines 310-314: the request takes the session's IDs and the counter advances.
\* (tid is a uint32; the bounds keep it far from the wrap-around.)
\* A counter that does not advance (a variant of advanceTid; C1 rejects it).
advanceTid_Stuck(sess) == sess
assignIDs(sess, req) == IF sess.active THEN [req EXCEPT !.SessionID = sess.sid, !.TransactionID = sess.tid] ELSE req
advanceTid(sess) == IF sess.active THEN [sess EXCEPT !.tid = sess.tid + 1] ELSE sess

\* Lines 371-381: the packet handed to decodeRep after the data: the final
\* packet of bulkRead if it has bytes (rest is then the whole packet, header
\* included), else a packet fetched now; the error of either is dropped.
responsePacket(br, fin, rd) ==
  IF Len(br.lastPacket) > 0 THEN [hdr |-> fin.hdr, rest |-> br.lastPacket, next |-> br.next, wire |-> br.wire]
  ELSE Only({[hdr |-> fp.hdr, rest |-> fp.rest, next |-> br.next + 1, wire |-> br.wire \o <<BulkEv("fetch", rd.data, rd.ok)>>] : fp \in {fetchPacket(rd, ZeroHeader)}})

\* Lines 360-382: the data-in phase after a first packet of type DATA with
\* payload rest.  Returns the header and rest handed to decodeRep; out are
\* the bytes written to dest.
dataPhase(rest, reads) ==
  Only({IF br.err.kind # "nil" THEN [err |-> br.err, hdr |-> ZeroHeader, rest |-> <<>>, out |-> rest \o br.out, next |-> br.next, wire |-> br.wire]
        ELSE Only({[err |-> NoErr, hdr |-> p.hdr, rest |-> p.rest, out |-> rest \o br.out, next |-> p.next, wire |-> p.wire]
                   : p \in {responsePacket(br, ReadHeader(br.lastPacket, ZeroHeader), ReadAt(reads, br.next))}})
        : br \in {IF Len(rest) + usbHdrLen = fetchMaxPacketSize THEN bulkRead(reads, 2)
                  ELSE [n |-> 0, lastPacket |-> <<>>, err |-> NoErr, out |-> <<>>, next |-> 2, wire |-> <<>>]}})

\* The checks after decodeRep without the one for unexpected data (a variant
\* of finish; C3 rejects it).
finish_IgnoringUnexpected(sess, req1, unexpectedData, hd, rest) ==
  Only({IF dr.err.kind # "nil" THEN dr
        ELSE IF sess.active /\ dr.rep.TransactionID # req1.TransactionID THEN [err |-> SyncError("transaction ID mismatch"), rep |-> dr.rep]
        ELSE [err |-> NoErr, rep |-> [dr.rep EXCEPT !.SessionID = req1.SessionID]]
        : dr \in {decodeRep(hd, rest, EmptyContainer)}})

\* Lines 384-400: decode the response, then the checks in program order.
finish(sess, req1, unexpectedData, hd, rest) ==
  Only({IF unexpectedData THEN [err |-> SyncError("unexpected data"), rep |-> dr.rep]
        ELSE IF dr.err.kind # "nil" THEN dr
        ELSE IF sess.active /\ dr.rep.TransactionID # req1.TransactionID THEN [err |-> SyncError("transaction ID mismatch"), rep |-> dr.rep]
        ELSE [err |-> NoErr, rep |-> [dr.rep EXCEPT !.SessionID = req1.SessionID]]
        : dr \in {decodeRep(hd, rest, EmptyContainer)}})

\* Lines 340-400: from the first fetch to the return value.  dp is the data
\* phase, or what stands for it when the first packet is no DATA packet.
receive(sess, req1, hasDest, reads) ==
  Only({IF fp.err.kind # "nil" THEN [err |-> fp.err, rep |-> EmptyContainer, sink |-> <<>>, wire |-> <<BulkEv("fetch", ReadAt(reads, 1).data, ReadAt(reads, 1).ok)>>, usedReads |-> 1]
        ELSE Only({IF dp.err.kind # "nil" THEN [err |-> dp.err, rep |-> EmptyContainer, sink |-> IF hasDest THEN dp.out ELSE <<>>, wire |-> <<BulkEv("fetch", ReadAt(reads, 1).data, TRUE)>> \o dp.wire, usedReads |-> dp.next - 1]
                   ELSE Only({[err |-> f.err, rep |-> f.rep, sink |-> IF hasDest THEN dp.out ELSE <<>>, wire |-> <<BulkEv("fetch", ReadAt(reads, 1).data, TRUE)>> \o dp.wire, usedReads |-> dp.next - 1]
                              : f \in {finish(sess, req1, fp.hdr.Type = USB_CONTAINER_DATA /\ ~hasDest, dp.hdr, dp.rest)}})
                   : dp \in {IF fp.hdr.Type = USB_CONTAINER_DATA THEN dataPhase(fp.rest, reads)
                             ELSE [err |-> NoErr, hdr |-> fp.hdr, rest |-> fp.rest, out |-> <<>>, next |-> 2, wire |-> <<>>]}})
        : fp \in {fetchPacket(ReadAt(reads, 1), ZeroHeader)}})

\* Lines 327-339: the data-out phase, if the caller gave a source.
dataOut(req1, src, writeSize, sep, sends) ==
  IF src.present THEN bulkWrite(Header(writeSize, USB_CONTAINER_DATA, req1.Code, req1.TransactionID), src.bytes, writeSize, sep, sends, 2)
  ELSE [n |-> 0, err |-> NoErr, next |-> 2, wire |-> <<>>]

\* runTransaction: assign IDs, send the command, the optional data-out
\* phase, then receive.  env = [sends, reads] holds the transfers' outcomes;
\* usedSends and usedReads count the outcomes consumed.
runTransaction(sess, req, hasDest, src, writeSize, sep, env) ==
  Only({IF sr.err.kind # "nil" THEN [err |-> sr.err, rep |-> EmptyContainer, sink |-> <<>>, wire |-> sr.wire, session |-> advanceTid(sess), usedReads |-> 0, usedSends |-> Len(sr.wire)]
        ELSE Only({IF bw.err.kind # "nil" THEN [err |-> bw.err, rep |-> EmptyContainer, sink |-> <<>>, wire |-> sr.wire \o bw.wire, session |-> advanceTid(sess), usedReads |-> 0, usedSends |-> bw.next - 1]
                   ELSE Only({[err |-> rc.err, rep |-> rc.rep, sink |-> rc.sink, wire |-> sr.wire \o bw.wire \o rc.wire, session |-> advanceTid(sess), usedReads |-> rc.usedReads, usedSends |-> bw.next - 1]
                              : rc \in {receive(sess, assignIDs(sess, req), hasDest, env.reads)}})
                   : bw \in {dataOut(assignIDs(sess, req), src, writeSize, sep, env.sends)}})
        : sr \in {sendReq(assignIDs(sess, req), SendAt(env.sends, 1))}})

(***************************************************************************)
(* Connection state and the operations on it.  st = [h, claimed, session,  *)
(* tids]: h is "d.h != nil"; tids is a history, the transaction IDs of the *)
(* commands sent under the current (or, with none active, the last)        *)
(* session object.                                                         *)
(*                                                                         *)
(* An operation yields the set of its outcomes [st, err, wire, ...].  Its  *)
(* last argument dev describes the device: the scripts it may play for     *)
(* each transaction the operation makes and the outcomes of the libusb     *)
(* calls.                                                                  *)
(***************************************************************************)
State(hh, cl, sess, tids) == [h |-> hh, claimed |-> cl, session |-> sess, tids |-> tids]
NoTx == [sends |-> <<>>, reads |-> <<>>]
AllOK == [reset |-> TRUE, release |-> TRUE, close |-> TRUE]
ReqTid(st) == IF st.session.active THEN st.session.tid ELSE 0
OpenReq(sid) == Container(OC_OpenSession, 0, 0, <<sid>>)
CloseReq == Container(OC_CloseSession, 0, 0, <<>>)
InfoReq == Container(OC_GetDeviceInfo, 0, 0, <<>>)

\* The transaction ID in the header of a command packet on the wire.
WireTid(ev) == Uint32(ev.data, 9)
IsCommand(ev) == ev.op = "bulk" /\ ev.ep = "send" /\ Len(ev.data) >= usbHdrLen /\ Uint16(ev.data, 5) = USB_CONTAINER_COMMAND

\* The connection after runTransaction returned r: d.session was updated in
\* place, and the history takes the ID of the command sent.
ran(st, r) ==
  [st |-> [st EXCEPT !.session = r.session, !.tids = IF st.session.active /\ r.wire # <<>> /\ IsCommand(r.wire[1]) THEN Append(st.tids, WireTid(r.wire[1])) ELSE st.tids],
   err |-> r.err, rep |-> r.rep, sink |-> r.sink, wire |-> r.wire]

\* runTransaction on the connection, against each script of txs that the
\* transaction uses up exactly.
runTx(st, req, hasDest, src, writeSize, sep, txs) ==
  UNION {{ran(st, r) : r \in {x \in {runTransaction(st.session, req, hasDest, src, writeSize, sep, tx)} : x.usedReads = Len(tx.reads) /\ x.usedSends = Len(tx.sends)}} : tx \in txs}

\* Lines 56-67: the close-session transaction of Close, if there is a
\* session, and the Reset after its failure.
\* The session's close without the Reset (a variant of closeSessionOnClose;
\* C11 rejects it).
closeSessionOnClose_NoReset(st, txs, lib) ==
  IF st.session.active
  THEN {[st |-> t.st, err |-> t.err, wire |-> t.wire] : t \in runTx(st, CloseReq, FALSE, NoSrc, 0, FALSE, txs)}
  ELSE {[st |-> st, err |-> NoErr, wire |-> <<>>]}
closeSessionOnClose(st, txs, lib) ==
  IF st.session.active
  THEN {[st |-> t.st, err |-> t.err, wire |-> t.wire \o (IF t.err.kind # "nil" THEN <<Ev("reset", "", <<>>, lib.reset)>> ELSE <<>>)]
        : t \in runTx(st, CloseReq, FALSE, NoSrc, 0, FALSE, txs)}
  ELSE {[st |-> st, err |-> NoErr, wire |-> <<>>]}

\* Close without the test for a closed connection (a variant of Close; C10
\* rejects it).
Close_Unguarded(st, dev) ==
  UNION {{[st |-> [t.st EXCEPT !.h = FALSE],
           err |-> IF lib.close THEN NoErr ELSE UsbError,
           wire |-> t.wire \o (IF t.st.claimed THEN <<Ev("release", "", <<>>, lib.release)>> ELSE <<>>) \o <<Ev("closeHandle", "", <<>>, lib.close)>>]
          : t \in closeSessionOnClose(st, dev.closeTxs[ReqTid(st)], lib)}
         : lib \in dev.libs}

\* Close: nothing on a closed connection; else the session's close, the
\* release of a claimed interface, the handle's Close, and d.h = nil.
Close(st, dev) ==
  IF ~st.h THEN {[st |-> st, err |-> NoErr, wire |-> <<>>]}
  ELSE UNION {{[st |-> [t.st EXCEPT !.h = FALSE],
                err |-> IF lib.close THEN NoErr ELSE UsbError,
                wire |-> t.wire \o (IF t.st.claimed THEN <<Ev("release", "", <<>>, lib.release)>> ELSE <<>>) \o <<Ev("closeHandle", "", <<>>, lib.close)>>]
               : t \in closeSessionOnClose(st, dev.closeTxs[ReqTid(st)], lib)}
              : lib \in dev.libs}

\* RunTransaction: refuse when not open; run; close the connection on a
\* usb.Error or SyncError.
\* A teardown policy that also closes on a device response error (a variant
\* of IsFatal; C4 rejects it).
IsFatal_AlsoRC(err) == err.kind \in {"usb", "sync", "rc"}
IsFatal(err) == err.kind = "usb" \/ err.kind = "sync"
\* RunTransaction without the test for a closed connection (a variant of
\* RunTransaction; C19 rejects it).
RunTransaction_Unguarded(st, req, hasDest, src, writeSize, sep, txs, dev) ==
  UNION {IF IsFatal(t.err) THEN {[st |-> c.st, err |-> t.err, rep |-> t.rep, sink |-> t.sink, wire |-> t.wire \o c.wire] : c \in Close(t.st, dev)}
         ELSE {t}
         : t \in runTx(st, req, hasDest, src, writeSize, sep, txs)}
RunTransaction(st, req, hasDest, src, writeSize, sep, txs, dev) ==
  IF ~st.h THEN {[st |-> st, err |-> PlainError("device is not open"), rep |-> EmptyContainer, sink |-> <<>>, wire |-> <<>>]}
  ELSE UNION {IF IsFatal(t.err) THEN {[st |-> c.st, err |-> t.err, rep |-> t.rep, sink |-> t.sink, wire |-> t.wire \o c.wire] : c \in Close(t.st, dev)}
              ELSE {t}
              : t \in runTx(st, req, hasDest, src, writeSize, sep, txs)}

\* A bulk transfer on a nil handle: the process dies in libusb.
Crash == Err("crash", 0, "nil handle")

\* OpenSession: refused while a session is open; else the OpenSession
\* command through runTransaction (no teardown afterwards); on success a
\* new session whose counter starts at 1.
OpenSession(st, sid, dev) ==
  IF st.session.active THEN {[st |-> st, err |-> PlainError("session already open"), wire |-> <<>>]}
  ELSE IF ~st.h THEN {[st |-> st, err |-> Crash, wire |-> <<>>]}
  ELSE {[st |-> IF t.err.kind = "nil" THEN [t.st EXCEPT !.session = Session(sid, 1), !.tids = <<>>] ELSE t.st, err |-> t.err, wire |-> t.wire]
        : t \in runTx(st, OpenReq(sid), FALSE, NoSrc, 0, FALSE, dev.openTxs)}

\* CloseSession: the CloseSession command through RunTransaction; the
\* session is dropped whatever the outcome.
CloseSession(st, dev) ==
  {[st |-> [t.st EXCEPT !.session = NoSession], err |-> t.err, wire |-> t.wire]
   : t \in RunTransaction(st, CloseReq, FALSE, NoSrc, 0, FALSE, dev.csTxs[ReqTid(st)], dev)}

\* GetDeviceInfo: a data-in transaction through RunTransaction.  Decoding the
\* dataset is not modelled: marker says whether the MTPExtension string of
\* a successfully fetched dataset contains the vendor marker.
GetDeviceInfo(st, dev) ==
  UNION {{[st |-> t.st, err |-> t.err, wire |-> t.wire, marker |-> t.err.kind = "nil" /\ m] : m \in dev.markers}
         : t \in RunTransaction(st, InfoReq, TRUE, NoSrc, 0, FALSE, dev.infoTxs[ReqTid(st)], dev)}

\* claim: claim the interface on the open handle.
claim(st, ok) ==
  IF ~st.h THEN [st |-> st, err |-> PlainError("device not open"), wire |-> <<>>]
  ELSE IF ~ok THEN [st |-> st, err |-> PlainError("failed to claim"), wire |-> <<Ev("claim", "", <<>>, FALSE)>>]
  ELSE [st |-> [st EXCEPT !.claimed = TRUE], err |-> NoErr, wire |-> <<Ev("claim", "", <<>>, TRUE)>>]

\* Lines 137-151: a failed sanity check closes the device and returns the
\* failure.
sanity(st, log, sane, failure, dev) ==
  IF sane THEN {[st |-> st, err |-> NoErr, wire |-> log]}
  ELSE {[st |-> c.st, err |-> failure, wire |-> log \o c.wire] : c \in Close(st, dev)}

\* Lines 132-154: the sanity check on the claimed device, by GetDeviceInfo
\* when the interface has no string descriptor, else by the interface string.
checkMTP(st, log, env, dev) ==
  IF env.strIndex0 THEN UNION {sanity(gi.st, log \o gi.wire, gi.marker, PlainError("no MTP extensions"), dev) : gi \in GetDeviceInfo(st, dev)}
  ELSE sanity(st, log \o <<Ev("getString", "", <<>>, env.str # "fail")>>, env.str = "MTP", IF env.str = "fail" THEN UsbError ELSE PlainError("has no MTP in interface string"), dev)

\* Open.  dev.opens are the environments [devOpen, claim, strIndex0, str]:
\* the outcomes of dev.Open and ClaimInterface, whether the interface has no
\* string descriptor, and the interface string ("MTP", "other" or "fail").
NoOpen == [devOpen |-> TRUE, claim |-> TRUE, strIndex0 |-> FALSE, str |-> "MTP"]
Open(st, dev) ==
  IF st.h THEN {[st |-> st, err |-> PlainError("already open"), wire |-> <<>>]}
  ELSE UNION {IF ~env.devOpen THEN {[st |-> st, err |-> PlainError("failed to open"), wire |-> <<Ev("open", "", <<>>, FALSE)>>]}
              ELSE UNION {IF c.err.kind # "nil" THEN {[st |-> c.st, err |-> PlainError("failed to claim"), wire |-> <<Ev("open", "", <<>>, TRUE)>> \o c.wire]}
                          ELSE checkMTP(c.st, <<Ev("open", "", <<>>, TRUE)>> \o c.wire, env, dev)
                          : c \in {claim([st EXCEPT !.h = TRUE], env.claim)}}
              : env \in dev.opens}

\* Configure's OpenSession without the second attempt (a variant of
\* openSessionTwice; C8 rejects it).
openSessionOnce(o1, sid, dev) == {[st |-> s1.st, err |-> s1.err, wire |-> o1.wire \o s1.wire] : s1 \in OpenSession(o1.st, sid, dev)}

\* Lines 532-538: OpenSession, and after "session already opened"
\* CloseSession and OpenSession again; err is the error line 540 tests.
openSessionTwice(o1, sid, dev) ==
  UNION {IF s1.err = RCError(RC_SessionAlreadyOpened)
         THEN UNION {{[st |-> s2.st, err |-> s2.err, wire |-> o1.wire \o s1.wire \o cs.wire \o s2.wire] : s2 \in OpenSession(cs.st, sid, dev)}
                     : cs \in CloseSession(s1.st, dev)}
         ELSE {[st |-> s1.st, err |-> s1.err, wire |-> o1.wire \o s1.wire]}
         : s1 \in OpenSession(o1.st, sid, dev)}

\* Lines 549-555: Open and OpenSession after the reset.
\* A reopening that sends OpenSession once more when it failed (a variant
\* of reopen; C18 rejects it).
reopen_Retrying(c, log, sid, dev) ==
  UNION {IF o2.err.kind # "nil" THEN {[st |-> o2.st, err |-> PlainError("opening after reset"), wire |-> log \o o2.wire]}
         ELSE UNION {IF s3.err.kind = "nil" THEN {[st |-> s3.st, err |-> NoErr, wire |-> log \o o2.wire \o s3.wire]}
                     ELSE {[st |-> s4.st, err |-> IF s4.err.kind = "nil" THEN NoErr ELSE PlainError("openSession after reset"), wire |-> log \o o2.wire \o s3.wire \o s4.wire]
                           : s4 \in OpenSession(s3.st, sid, dev)}
                     : s3 \in OpenSession(o2.st, sid, dev)}
         : o2 \in Open(c.st, [dev EXCEPT !.opens = dev.reopens])}
reopen(c, log, sid, dev) ==
  UNION {IF o2.err.kind # "nil" THEN {[st |-> o2.st, err |-> PlainError("opening after reset"), wire |-> log \o o2.wire]}
         ELSE {[st |-> s3.st, err |-> IF s3.err.kind = "nil" THEN NoErr ELSE PlainError("openSession after reset"), wire |-> log \o o2.wire \o s3.wire]
               : s3 \in OpenSession(o2.st, sid, dev)}
         : o2 \in Open(c.st, [dev EXCEPT !.opens = dev.reopens])}

\* The recovery with the reset after the Close (a variant of recover; C9
\* rejects it).
recover_ResetLate(s, sid, dev) ==
  IF s.err.kind \in {"nil", "crash"} THEN {s}
  ELSE UNION {UNION {reopen(c, s.wire \o c.wire \o (IF s.st.h THEN <<Ev("reset", "", <<>>, ok)>> ELSE <<>>) \o <<Ev("sleep", "", <<>>, TRUE)>>, sid, dev)
                     : c \in Close(s.st, dev)}
              : ok \in dev.resets}

\* Lines 540-556: nothing on success; else Reset on an open handle, Close,
\* a second of rest, Open and OpenSession.  (An OpenSession that crashed
\* never returned.)
recover(s, sid, dev) ==
  IF s.err.kind \in {"nil", "crash"} THEN {s}
  ELSE UNION {UNION {reopen(c, s.wire \o (IF s.st.h THEN <<Ev("reset", "", <<>>, ok)>> ELSE <<>>) \o c.wire \o <<Ev("sleep", "", <<>>, TRUE)>>, sid, dev)
                     : c \in Close(s.st, dev)}
              : ok \in dev.resets}

\* Configure: Open if needed, open the session, recover on failure.
Configure(st, sid, dev) ==
  UNION {IF o1.err.kind # "nil" THEN {o1}
         ELSE UNION {recover(s, sid, dev) : s \in openSessionTwice(o1, sid, dev)}
         : o1 \in (IF ~st.h THEN Open(st, dev) ELSE {[st |-> st, err |-> NoErr, wire |-> <<>>]})}

(***************************************************************************)
(* The environment: what the device and libusb may answer.                 *)
(***************************************************************************)
\* n payload bytes, numbered from `from` on, so that loss, duplication and
\* reordering show.
Bytes(from, n) == [i \in 1..n |-> (from + i - 1) % 256]
\* A packet whose header declares nDecl parameters and that carries params.
RespPkt(type, code, tid, nDecl, params) == PutHeader(Header(usbHdrLen + 4 * nDecl, type, code, tid)) \o PutParams(params)
\* A DATA packet: the header declares the whole payload, n bytes of it follow.
DataPkt(code, tid, total, n) == PutHeader(Header(usbHdrLen + total, USB_CONTAINER_DATA, code, tid)) \o Bytes(1, n)
FullPayload == fetchMaxPacketSize - usbHdrLen

OkResp(tid) == Rd(RespPkt(USB_CONTAINER_RESPONSE, RC_OK, tid, 0, <<>>), TRUE)
RcResp(code, tid) == Rd(RespPkt(USB_CONTAINER_RESPONSE, code, tid, 0, <<>>), TRUE)
ReadFails == Rd(<<>>, FALSE)
ZeroLength == Rd(<<>>, TRUE)
SendFails == [sends |-> <<FALSE>>, reads |-> <<>>]
Answers(rs) == {[sends |-> <<TRUE>>, reads |-> <<r>>] : r \in rs}

\* Transaction IDs a script may have to answer.
Tids == 0..(MaxTid + 2)
\* Scripts of a transaction without data: the send fails, or the device
\* answers OK, an error code, OK with another transaction ID, or the read
\* fails.
TxCore(tid) == {SendFails} \cup Answers({OkResp(tid), RcResp(RC_GeneralError, tid), OkResp(tid + 1), ReadFails})
\* Fewer of them: the send fails, or the device answers OK or an error code.
TxFew(tid) == {SendFails} \cup Answers({OkResp(tid), RcResp(RC_GeneralError, tid)})
\* Scripts of an OpenSession transaction (sent without a session, ID 0).
TxOpen == {SendFails} \cup Answers({OkResp(0), RcResp(RC_SessionAlreadyOpened, 0), RcResp(RC_GeneralError, 0), ReadFails})
\* A well-formed response with an error code: with a parameter, and with
\* another transaction ID.
TxRc(tid) == Answers({Rd(RespPkt(USB_CONTAINER_RESPONSE, RC_GeneralError, tid, 1, <<7>>), TRUE), RcResp(RC_GeneralError, tid + 1)})
\* A data packet although the caller gave no sink, then the response.
TxUnexpected(tid) == {[sends |-> <<TRUE>>, reads |-> <<Rd(DataPkt(OC_GetDeviceInfo, tid, 2, 2), TRUE), OkResp(tid)>>]}
\* Data-in scripts of the lifecycle specification: a short data packet and a
\* full one followed by a short read, each followed by the response.
TxData(tid) == {[sends |-> <<TRUE>>, reads |-> <<Rd(DataPkt(OC_GetDeviceInfo, tid, 2, 2), TRUE), r>>] : r \in {OkResp(tid), RcResp(RC_GeneralError, tid)}} \cup {[sends |-> <<TRUE>>, reads |-> <<Rd(DataPkt(OC_GetDeviceInfo, tid, FullPayload + 3, FullPayload), TRUE), Rd(Bytes(FullPayload + 1, 3), TRUE), OkResp(tid)>>]}

Libs == {AllOK, [reset |-> FALSE, release |-> FALSE, close |-> FALSE]}
\* The environments of an Open: all goes well, dev.Open fails, the claim
\* fails, the interface string is not MTP or cannot be read, or there is
\* no interface string and GetDeviceInfo decides.
OpensFew == {NoOpen, [NoOpen EXCEPT !.devOpen = FALSE], [NoOpen EXCEPT !.claim = FALSE]}
OpensStr == OpensFew \cup {[NoOpen EXCEPT !.str = "other"], [NoOpen EXCEPT !.str = "fail"]}
Opens == OpensStr \cup {[NoOpen EXCEPT !.strIndex0 = TRUE]}

\* The device of the lifecycle specification.  A Close made on the way
\* (RunTransaction's teardown, Open's failed sanity check) meets a device
\* that answers the close-session command or not, and a libusb that works.
Device ==
  [closeTxs |-> [tid \in Tids |-> TxFew(tid)], libs |-> {AllOK},
   csTxs |-> [tid \in Tids |-> TxCore(tid)],
   infoTxs |-> [tid \in Tids |-> TxData(tid) \cup Answers({ReadFails})], markers |-> BOOLEAN,
   openTxs |-> TxOpen, opens |-> Opens, reopens |-> Opens, resets |-> {TRUE}]
\* The device of a Close called directly: libusb may fail as well.
DeviceClosing == [Device EXCEPT !.closeTxs = [tid \in Tids |-> TxCore(tid)], !.libs = Libs]
\* The device of Configure: a session closed on Close is answered OK or not
\* at all; a reset works or fails; the reopening meets no interface string
\* other than MTP.
DeviceConfigure ==
  [Device EXCEPT !.closeTxs = [tid \in Tids |-> Answers({OkResp(tid), ReadFails})], !.resets = BOOLEAN,
                 !.csTxs = [tid \in Tids |-> {SendFails} \cup Answers({OkResp(tid), RcResp(RC_GeneralError, tid)})],
                 !.openTxs = TxOpen,
                 !.opens = OpensStr, !.reopens = OpensFew]

(***************************************************************************)
(* The lifecycle specification: any sequence of API calls on a connection. *)
(***************************************************************************)
Sids == {1}
Conn == State(h, claimed, session, sessTids)
NoCall == [op |-> "init", req |-> EmptyContainer, hasDest |-> FALSE, src |-> NoSrc, writeSize |-> 0, sep |-> FALSE]
Call(op, req, hasDest, src, writeSize, sep) == [op |-> op, req |-> req, hasDest |-> hasDest, src |-> src, writeSize |-> writeSize, sep |-> sep]
Plain(op) == Call(op, EmptyContainer, FALSE, NoSrc, 0, FALSE)
\* The process is alive and the session's counter is within the bound.
Ready == ret.kind \notin {"crash", "panic"} /\ (session.active => session.tid < MaxTid)

Return(op, st, err, rp, snk, log) ==
  /\ h' = st.h /\ claimed' = st.claimed /\ session' = st.session /\ sessTids' = st.tids
  /\ call' = op /\ pre' = Conn /\ ret' = err /\ rep' = rp /\ sink' = snk /\ wire' = log

Init ==
  /\ h = FALSE /\ claimed = FALSE /\ session = NoSession /\ sessTids = <<>>
  /\ call = NoCall /\ pre = State(FALSE, FALSE, NoSession, <<>>)
  /\ ret = NoErr /\ rep = EmptyContainer /\ wire = <<>> /\ sink = <<>>

DoOpen ==
  /\ Ready
  /\ \E r \in Open(Conn, Device) : Return(Plain("Open"), r.st, r.err, EmptyContainer, <<>>, r.wire)

DoClose ==
  /\ Ready
  /\ \E r \in Close(Conn, DeviceClosing) : Return(Plain("Close"), r.st, r.err, EmptyContainer, <<>>, r.wire)

DoOpenSession ==
  /\ Ready
  /\ \E sid \in Sids :
       \E r \in OpenSession(Conn, sid, Device) : Return(Plain("OpenSession"), r.st, r.err, EmptyContainer, <<>>, r.wire)

DoCloseSession ==
  /\ Ready
  /\ \E r \in CloseSession(Conn, Device) : Return(Plain("CloseSession"), r.st, r.err, EmptyContainer, <<>>, r.wire)

DoRunTransaction ==
  /\ Ready
  /\ \E hasDest \in BOOLEAN :
       \E r \in RunTransaction(Conn, InfoReq, hasDest, NoSrc, 0, FALSE, IF hasDest THEN TxData(ReqTid(Conn)) ELSE TxCore(ReqTid(Conn)) \cup TxRc(ReqTid(Conn)) \cup TxUnexpected(ReqTid(Conn)), Device) :
         Return(Call("RunTransaction", InfoReq, hasDest, NoSrc, 0, FALSE), r.st, r.err, r.rep, r.sink, r.wire)

DoConfigure ==
  /\ Ready
  /\ \E sid \in Sids :
       \E r \in Configure(Conn, sid, DeviceConfigure) : Return(Plain("Configure"), r.st, r.err, EmptyContainer, <<>>, r.wire)

Next == DoOpen \/ DoClose \/ DoOpenSession \/ DoCloseSession \/ DoRunTransaction \/ DoConfigure

Spec == Init /\ [][Next]_vars

(***************************************************************************)
(* The transaction specification: one RunTransaction, on an open           *)
(* connection without a session or with a session that has run some        *)
(* transactions, against every device behaviour of the sets below.         *)
(***************************************************************************)
\* Transactions the session of an initial state has already run.
MaxDone == 1
\* Transfers of a data-out script.
MaxSends == 5

\* Parameters of a request: one more than a container holds.
MaxParams == 6
\* The i-th parameter: a word whose four bytes differ.
ParamWord(i) == 16909060 + 1024 * i
OwnTid == 5
ParamReq(k) == Container(OC_GetDeviceInfo, 9, OwnTid, [i \in 1..k |-> ParamWord(i)])

\* What the header of a response declares (a number of parameters) and what
\* follows it: consistent, more declared than sent, fewer declared than sent.
RespShapes == {<<0, <<>>>>, <<1, <<7>>>>, <<1, <<>>>>, <<0, <<7>>>>}
Truncated == Rd(<<3, 0>>, TRUE)
RespRich(tid) == {Rd(RespPkt(ty, c, t, sh[1], sh[2]), TRUE) : ty \in {USB_CONTAINER_RESPONSE, USB_CONTAINER_COMMAND}, c \in {RC_OK, RC_GeneralError}, t \in {tid, tid + 1}, sh \in RespShapes} \cup {Truncated, ZeroLength, ReadFails}
RespMid(tid) == {OkResp(tid), Rd(RespPkt(USB_CONTAINER_RESPONSE, RC_OK, tid, 1, <<7>>), TRUE), RcResp(RC_GeneralError, tid), OkResp(tid + 1), RcResp(RC_GeneralError, tid + 1), Rd(RespPkt(USB_CONTAINER_COMMAND, RC_OK, tid, 0, <<>>), TRUE), Rd(RespPkt(USB_CONTAINER_RESPONSE, RC_OK, tid, 1, <<>>), TRUE), Truncated, ReadFails}

\* The first packet of a data-in phase that fills the packet, and the reads
\* of bulkRead after it: scripts whose last read is no multiple of the
\* packet size, and scripts after which bulkRead reads once more.
FullData(tid, total) == Rd(DataPkt(OC_GetDeviceInfo, tid, total, FullPayload), TRUE)
BulkNoExtra == {<<Rd(Bytes(FullPayload + 1, 5), TRUE)>>, <<Rd(Bytes(FullPayload + 1, rwBufSize), TRUE), Rd(Bytes(FullPayload + rwBufSize + 1, 3), TRUE)>>}
BulkExtra == {<<Rd(Bytes(FullPayload + 1, fetchMaxPacketSize), TRUE)>>, <<ZeroLength>>, <<ReadFails>>, <<Rd(Bytes(FullPayload + 1, rwBufSize), TRUE), ZeroLength>>}
BulkFails == {<<Rd(Bytes(FullPayload + 1, 3), FALSE)>>, <<Rd(Bytes(FullPayload + 1, rwBufSize), TRUE), Rd(Bytes(FullPayload + rwBufSize + 1, 3), FALSE)>>}

ReadsRich(tid) ==
  {<<r>> : r \in RespRich(tid)}
  \cup {<<Rd(DataPkt(OC_GetDeviceInfo, tid, n, n), TRUE), r>> : n \in {0, 2}, r \in RespMid(tid)}
  \cup {<<FullData(tid, FullPayload + 5)>> \o b \o <<r>> : b \in BulkNoExtra, r \in RespMid(tid)}
  \cup {<<FullData(tid, FullPayload + 5)>> \o b \o <<x>> : b \in BulkExtra, x \in RespMid(tid)}
  \cup {<<FullData(tid, FullPayload + 5)>> \o b \o <<ZeroLength, r>> : b \in BulkExtra, r \in RespMid(tid)}
  \cup {<<FullData(tid, FullPayload + 5)>> \o b : b \in BulkFails}
  \cup {<<FullData(tid, FullPayload + 5)>> \o b \o <<ReadFails>> : b \in BulkFails}

\* Data-out: the size announced, the reader (which may hold fewer bytes),
\* and the outcome of each transfer on the send endpoint.
WriteSizes == {0, FullPayload, FullPayload + 1, sendMaxPacketSize, FullPayload + sendMaxPacketSize, FullPayload + rwBufSize + 3}
Readers(size) == {Src(Bytes(1, size))} \cup (IF size > FullPayload THEN {Src(Bytes(1, size - 1))} ELSE {})
SendScripts == UNION {{[i \in 1..n |-> i # k] : k \in 0..n} : n \in 1..MaxSends}
TxOut(tid) == {[sends |-> ss, reads |-> rs] : ss \in SendScripts, rs \in {<<>>, <<OkResp(tid)>>, <<RcResp(RC_GeneralError, tid)>>, <<ReadFails>>}}
TxIn(tid) == {SendFails} \cup {[sends |-> <<TRUE>>, reads |-> rs] : rs \in ReadsRich(tid)}

InitTx ==
  /\ h = TRUE /\ claimed = TRUE
  /\ \E done \in 0..MaxDone, active \in BOOLEAN :
       /\ session = IF active THEN Session(1, done + 1) ELSE NoSession
       /\ sessTids = IF active THEN [i \in 1..done |-> i] ELSE <<>>
       /\ (~active => done = 0)
  /\ call = NoCall /\ pre = Conn
  /\ ret = NoErr /\ rep = EmptyContainer /\ wire = <<>> /\ sink = <<>>

\* A transaction without data-out: with or without a sink for data-in.
TxDataIn ==
  /\ call.op = "init"
  /\ \E hasDest \in BOOLEAN :
       \E r \in RunTransaction(Conn, InfoReq, hasDest, NoSrc, 0, FALSE, TxIn(ReqTid(Conn)), DeviceClosing) :
         Return(Call("RunTransaction", InfoReq, hasDest, NoSrc, 0, FALSE), r.st, r.err, r.rep, r.sink, r.wire)

\* A transaction with a data-out phase.
TxDataOut ==
  /\ call.op = "init"
  /\ \E size \in WriteSizes, sep \in BOOLEAN :
       \E src \in Readers(size) :
         \E r \in RunTransaction(Conn, InfoReq, FALSE, src, size, sep, TxOut(ReqTid(Conn)), DeviceClosing) :
           Return(Call("RunTransaction", InfoReq, FALSE, src, size, sep), r.st, r.err, r.rep, r.sink, r.wire)

\* A transaction whose request has k parameters, and IDs of its own that
\* count when there is no session.
TxParams ==
  /\ call.op = "init"
  /\ \E k \in 0..MaxParams :
       \E r \in RunTransaction(Conn, ParamReq(k), FALSE, NoSrc, 0, FALSE, {NoTx} \cup TxCore(IF session.active THEN session.tid ELSE OwnTid), DeviceClosing) :
         Return(Call("RunTransaction", ParamReq(k), FALSE, NoSrc, 0, FALSE), r.st, r.err, r.rep, r.sink, r.wire)

NextTx == TxDataIn \/ TxDataOut \/ TxParams

SpecTx == InitTx /\ [][NextTx]_vars

(***************************************************************************)
(* Reading the last call off the wire.                                     *)
(***************************************************************************)
IsFetch(ev) == ev.op = "bulk" /\ ev.ep = "fetch"
CmdCode(ev) == Uint16(ev.data, 7)
Commands == SelectSeq(wire, IsCommand)
\* The transfers of the transaction a RunTransaction call ran: the wire up
\* to the teardown, whose first event is a command, a reset, a release or
\* the handle's close.
TxEnd == CHOOSE i \in 2..(Len(wire) + 1) : (i <= Len(wire) => IsCommand(wire[i]) \/ wire[i].op # "bulk") /\ (\A j \in 2..(i - 1) : ~IsCommand(wire[j]) /\ wire[j].op = "bulk")
TxWire == IF wire = <<>> THEN <<>> ELSE SubSeq(wire, 1, TxEnd - 1)
TxFetches == SelectSeq(TxWire, IsFetch)
FirstPkt == TxFetches[1]
LastPkt == TxFetches[Len(TxFetches)]
HasHeader(ev) == ev.ok /\ Len(ev.data) >= usbHdrLen
PktLength(ev) == Uint32(ev.data, 1)
PktType(ev) == Uint16(ev.data, 5)
PktCode(ev) == Uint16(ev.data, 7)
PktTid(ev) == Uint32(ev.data, 9)
\* The parameters a packet carries after its header, as its Length declares.
PktParams(ev) == [i \in 1..((PktLength(ev) - usbHdrLen) \div 4) |-> Uint32(ev.data, usbHdrLen + 4 * i - 3)]

\* The last call was a RunTransaction on an open connection.
RanTx == call.op = "RunTransaction" /\ pre.h
\* It decoded a packet as the response: the last packet it fetched.
Decoded == RanTx /\ TxFetches # <<>> /\ HasHeader(LastPkt)
\* Its first packet was a DATA packet although the caller gave no sink.
UnexpectedData == RanTx /\ ~call.hasDest /\ TxFetches # <<>> /\ HasHeader(FirstPkt) /\ PktType(FirstPkt) = USB_CONTAINER_DATA
\* The session's counter after one more transaction.
Advanced(sess) == IF sess.active THEN [sess EXCEPT !.tid = sess.tid + 1] ELSE sess

(***************************************************************************)
(* C1.  The transaction IDs of a session.                                  *)
(***************************************************************************)
\* C1: the commands sent under a session carry the IDs 1, 2, 3, ... in this
\* order, whether their transactions succeeded or failed, and the session's
\* counter is one more than the number of commands sent; the commands of one
\* call made with a session active carry the counter's value at the call,
\* then the next value, and so on.
C1_TransactionIdsIncreaseByOne ==
  /\ sessTids = [i \in 1..Len(sessTids) |-> i]
  /\ session.active => session.tid = Len(sessTids) + 1
  /\ pre.session.active => \A i \in 1..Len(Commands) : WireTid(Commands[i]) = pre.session.tid + i - 1
\* A failed transaction after an earlier one of the same session.
C1_Witness == RanTx /\ pre.session.active /\ ret.kind = "rc" /\ Len(sessTids) >= 2 /\ h

(***************************************************************************)
(* C2.  A response with another transaction ID.                            *)
(***************************************************************************)
\* C2: with a session active, a RESPONSE packet whose transaction ID differs
\* from the request's makes RunTransaction return a SyncError and leaves
\* the connection closed, whatever the packet's code and parameters.
C2_MismatchedIdIsDesync ==
  (Decoded /\ pre.session.active /\ PktType(LastPkt) = USB_CONTAINER_RESPONSE /\ PktTid(LastPkt) # WireTid(wire[1]))
    => (ret.kind = "sync" /\ ~h)
\* C2 with the mismatch on a response whose code is an error and whose
\* length is as declared: the case in which the code returns the RCError.
C2_Witness ==
  /\ Decoded /\ pre.session.active /\ PktType(LastPkt) = USB_CONTAINER_RESPONSE /\ PktTid(LastPkt) # WireTid(wire[1])
  /\ PktCode(LastPkt) = RC_GeneralError /\ PktLength(LastPkt) = Len(LastPkt.data)
  /\ ret = RCError(RC_GeneralError) /\ h

(***************************************************************************)
(* C3.  Data for a call without a sink.                                    *)
(***************************************************************************)
\* C3: when the first packet is a DATA packet and the caller gave no sink,
\* nothing is handed to the caller and the connection is closed on return;
\* if no transfer fails, the response is read after the data and the
\* "unexpected data" SyncError is returned whatever the response is.
C3_UnexpectedDataIsDesync ==
  UnexpectedData => /\ ~h /\ sink = <<>>
                    /\ (\A i \in 1..Len(TxFetches) : TxFetches[i].ok) => (ret = SyncError("unexpected data") /\ Len(TxFetches) >= 2)
\* A full data packet, the rest of the data, then a response with an error code.
C3_Witness ==
  /\ UnexpectedData /\ Len(FirstPkt.data) = fetchMaxPacketSize /\ Len(TxFetches) >= 3
  /\ HasHeader(LastPkt) /\ PktType(LastPkt) = USB_CONTAINER_RESPONSE /\ PktCode(LastPkt) = RC_GeneralError
  /\ ret = SyncError("unexpected data") /\ ~h

(***************************************************************************)
(* C4.  A response with an error code.                                     *)
(***************************************************************************)
\* A well-formed RESPONSE packet with a code other than OK was decoded, and
\* no data arrived unexpectedly.
C4_Case ==
  /\ Decoded /\ ~UnexpectedData
  /\ PktType(LastPkt) = USB_CONTAINER_RESPONSE /\ PktCode(LastPkt) # RC_OK
  /\ PktLength(LastPkt) = Len(LastPkt.data) /\ (PktLength(LastPkt) - usbHdrLen) % 4 = 0
C5_TransportFailureIsReturned ==
  (RanTx /\ \E i \in 1..Len(TxWire) : ~TxWire[i].ok) => (ret.kind # "nil" /\ ~h)
\* C5 where it fails: a read of the data phase failed and RunTransaction
\* returned nil on an open connection.
C5_Witness ==
  /\ RanTx /\ call.hasDest /\ (\E i \in 1..Len(TxFetches) : ~TxFetches[i].ok)
  /\ ret = NoErr /\ h

(***************************************************************************)
(* C6.  A response shorter than its header declares.                       *)
(***************************************************************************)
\* C6: a RESPONSE packet whose declared length exceeds the bytes received
\* makes RunTransaction return an error and leaves the connection closed.
C6_ShortResponseIsDesync ==
  (Decoded /\ PktType(LastPkt) = USB_CONTAINER_RESPONSE /\ PktLength(LastPkt) > Len(LastPkt.data))
    => (ret.kind # "nil" /\ ~h)
\* C6 where it fails: the error is returned, the connection stays open.
C6_Witness ==
  /\ Decoded /\ PktType(LastPkt) = USB_CONTAINER_RESPONSE /\ PktLength(LastPkt) > Len(LastPkt.data)
  /\ ret = PlainError("header specified more bytes") /\ h

(***************************************************************************)
(* C7.  A packet of another type where the response is due.                *)
(***************************************************************************)
\* C7 as stated: a packet decoded as the response whose type is not
\* RESPONSE makes RunTransaction return the SyncError that names the type,
\* and leaves the connection closed.
C7_NonResponseNamesType ==
  (Decoded /\ PktType(LastPkt) # USB_CONTAINER_RESPONSE) => (ret = TypeError(PktType(LastPkt)) /\ ~h)
\* C7, amended: ... makes RunTransaction return a SyncError and leaves the
\* connection closed; the SyncError names the type unless the data came
\* unexpectedly, and is the "unexpected data" one then.
C7_NonResponseIsDesync ==
  (Decoded /\ PktType(LastPkt) # USB_CONTAINER_RESPONSE)
    => (ret = (IF UnexpectedData THEN SyncError("unexpected data") ELSE TypeError(PktType(LastPkt))) /\ ~h)
\* A COMMAND packet after the data phase of a call with a sink.
C7_Witness ==
  /\ Decoded /\ call.hasDest /\ Len(TxFetches) >= 2 /\ PktType(FirstPkt) = USB_CONTAINER_DATA
  /\ PktType(LastPkt) = USB_CONTAINER_COMMAND /\ ret = TypeError(USB_CONTAINER_COMMAND) /\ ~h

(***************************************************************************)
(* C8, C9.  Configure.                                                     *)
(***************************************************************************)
Label(ev) ==
  IF IsCommand(ev) THEN (IF CmdCode(ev) = OC_OpenSession THEN "OpenSession" ELSE IF CmdCode(ev) = OC_CloseSession THEN "CloseSession" ELSE "command")
  ELSE IF ev.op = "bulk" THEN ev.ep ELSE ev.op
\* The wire of the last call from its first OpenSession command on.
FirstOpenSession == CHOOSE i \in 1..(Len(wire) + 1) : (i <= Len(wire) => Label(wire[i]) = "OpenSession") /\ (\A j \in 1..(i - 1) : Label(wire[j]) # "OpenSession")
CfgTail == SubSeq(wire, FirstOpenSession, Len(wire))
CfgLabels == [i \in 1..Len(CfgTail) |-> Label(CfgTail[i])]
IsResponse(ev, code) == IsFetch(ev) /\ HasHeader(ev) /\ PktType(ev) = USB_CONTAINER_RESPONSE /\ PktCode(ev) = code

\* Configure's first OpenSession was answered "session already opened".
AlreadyOpened == call.op = "Configure" /\ Len(CfgTail) >= 2 /\ CfgTail[1].ok /\ IsResponse(CfgTail[2], RC_SessionAlreadyOpened)
\* ... and the second OpenSession was answered OK.
RetryOK == Len(CfgTail) >= 6 /\ CfgLabels[5] = "OpenSession" /\ CfgTail[5].ok /\ IsResponse(CfgTail[6], RC_OK)

\* C8: after "session already opened" Configure sends CloseSession; if that
\* transaction ends without a transport failure it sends OpenSession again;
\* if the device answers that with OK, Configure returns nil with the
\* session open, and these three transactions are all it did from the first
\* OpenSession on: no reset, no close, no wait, no reopening.
C8_AlreadyOpenedRetries ==
  AlreadyOpened =>
    /\ Len(CfgTail) >= 3 /\ CfgLabels[3] = "CloseSession"
    /\ (CfgTail[3].ok /\ Len(CfgTail) >= 4 /\ CfgTail[4].ok) => (Len(CfgTail) >= 5 /\ CfgLabels[5] = "OpenSession")
    /\ RetryOK => /\ ret = NoErr /\ h /\ session.active /\ session.tid = 1
                  /\ CfgLabels = <<"OpenSession", "fetch", "CloseSession", "fetch", "OpenSession", "fetch">>
\* The path on a connection that Configure had to open first.
C8_Witness == AlreadyOpened /\ RetryOK /\ ~pre.h /\ ret = NoErr /\ session.active

\* Configure's first OpenSession failed in a transfer: the send, or the read
\* of the response.
TransportFault == call.op = "Configure" /\ CfgTail # <<>> /\ (~CfgTail[1].ok \/ (Len(CfgTail) >= 2 /\ IsFetch(CfgTail[2]) /\ ~CfgTail[2].ok))
\* What Configure did after the failed transfer.
Recovery == SubSeq(CfgTail, IF CfgTail[1].ok THEN 3 ELSE 2, Len(CfgTail))
RecoveryLabels == [i \in 1..Len(Recovery) |-> Label(Recovery[i])]
\* Reset, Close (the release of a claimed interface and the handle's close),
\* the wait, the Open.
ResetCloseWaitOpen == <<"reset">> \o (IF pre.h /\ ~pre.claimed THEN <<>> ELSE <<"release">>) \o <<"closeHandle", "sleep", "open">>
\* The events of the reopening and after.
Reopening == SubSeq(Recovery, Len(ResetCloseWaitOpen), Len(Recovery))
ReopeningLabels == [i \in 1..Len(Reopening) |-> Label(Reopening[i])]
Reopened == Len(Reopening) >= 3 /\ Reopening[1].ok /\ Reopening[2].op = "claim" /\ Reopening[2].ok /\ Reopening[3].op = "getString" /\ Reopening[3].ok
FinalOK == Len(Reopening) = 5 /\ Reopening[4].ok /\ IsResponse(Reopening[5], RC_OK)

\* C9: after a transport failure of the first OpenSession Configure resets
\* the device, closes the connection, waits, opens the device again, in this
\* order; if the opening fails it returns the error of the open stage and
\* sends no OpenSession; else it sends one OpenSession, and returns nil
\* with the session open if that is answered OK, and the error of the
\* session-open stage if not.
C9_TransportFaultRecovers ==
  TransportFault =>
    /\ Len(Recovery) >= Len(ResetCloseWaitOpen)
    /\ SubSeq(RecoveryLabels, 1, Len(ResetCloseWaitOpen)) = ResetCloseWaitOpen
    /\ ~Reopened => (ret = PlainError("opening after reset") /\ \A i \in 1..Len(Reopening) : ReopeningLabels[i] # "OpenSession")
    /\ Reopened => /\ Len(Reopening) \in {4, 5} /\ ReopeningLabels[4] = "OpenSession"
                   /\ ret = (IF FinalOK THEN NoErr ELSE PlainError("openSession after reset"))
                   /\ FinalOK => (h /\ session.active)
\* The final OpenSession fails as well.
C9_Witness == TransportFault /\ Reopened /\ ~FinalOK /\ ret = PlainError("openSession after reset")

(***************************************************************************)
(* C10.  Close on a closed connection.                                     *)
(***************************************************************************)
\* C10: Close on a closed connection returns nil, makes no libusb call and
\* leaves the connection as it was; and every Close leaves the connection
\* closed, so that a second Close is such a call.
C10_CloseIdempotent ==
  call.op = "Close" => /\ ~h
                       /\ ~pre.h => (ret = NoErr /\ wire = <<>> /\ Conn = pre)
\* Close on a closed connection whose session is still there.
C10_Witness == call.op = "Close" /\ ~pre.h /\ pre.session.active /\ ret = NoErr

(***************************************************************************)
(* C11.  Close on an open connection.                                      *)
(***************************************************************************)
WireLabels == [i \in 1..Len(wire) |-> Label(wire[i])]
\* The close-session transaction of the last call went through: the command
\* was sent and a well-formed OK response with its transaction ID came back.
CloseTxOK ==
  /\ Len(wire) >= 2 /\ IsCommand(wire[1]) /\ wire[1].ok
  /\ IsResponse(wire[2], RC_OK) /\ PktTid(wire[2]) = WireTid(wire[1]) /\ PktLength(wire[2]) <= Len(wire[2].data)
\* What Close does about an active session: one CloseSession command with
\* the session's next ID, the read of its response if the command went
\* out, and a reset if the transaction failed.
SessionShutdown == <<"CloseSession">> \o (IF wire[1].ok THEN <<"fetch">> ELSE <<>>) \o (IF CloseTxOK THEN <<>> ELSE <<"reset">>)

\* C11: Close on an open connection does this and nothing else: if a
\* session is active, one close-session transaction, and a reset if and
\* only if that transaction failed; then, on every path, the release of the
\* interface if it is claimed and one close of the handle (so no Close
\* within the Close); and the connection is closed afterwards.
C11_CloseShutsDown ==
  (call.op = "Close" /\ pre.h) =>
    /\ ~h
    /\ WireLabels = (IF pre.session.active THEN SessionShutdown ELSE <<>>) \o (IF pre.claimed THEN <<"release">> ELSE <<>>) \o <<"closeHandle">>
    /\ pre.session.active => WireTid(wire[1]) = pre.session.tid
\* The device answers the close-session command with an error code; the
\* release and the close of the handle fail as well.
C11_Witness ==
  /\ call.op = "Close" /\ pre.h /\ pre.session.active /\ pre.claimed
  /\ wire[1].ok /\ IsResponse(wire[2], RC_GeneralError)
  /\ WireLabels = <<"CloseSession", "fetch", "reset", "release", "closeHandle">>
  /\ ~wire[4].ok /\ ~wire[5].ok /\ ~h

(***************************************************************************)
(* C12.  The session of a closed connection.                               *)
(***************************************************************************)
\* C12: while the connection is closed no session is active, and a
\* connection that Open has just opened has no session.
C12_ClosedHasNoSession ==
  /\ ~h => ~session.active
  /\ (call.op = "Open" /\ ~pre.h /\ h) => ~session.active
\* C12 where it fails: Open has reopened a connection whose session had sent
\* commands before the close, and the session and its counter are still
\* there.
C12_Witness == call.op = "Open" /\ ~pre.h /\ pre.session.active /\ ret = NoErr /\ h /\ session = pre.session /\ session.tid > 1

(***************************************************************************)
(* C13.  The end of the data-out phase.                                    *)
(***************************************************************************)
IsSend(ev) == ev.op = "bulk" /\ ev.ep = "send"
RECURSIVE SumLen(_)
SumLen(evs) == IF evs = <<>> THEN 0 ELSE Len(Head(evs).data) + SumLen(Tail(evs))
\* The transfers of the data-out phase: those on the send endpoint after
\* the command.
DataSends == Tail(SelectSeq(TxWire, IsSend))
LastSend == DataSends[Len(DataSends)]
\* The last call ran a data-out phase in which no transfer failed and the
\* whole payload went out after the header.
DataOutDone ==
  /\ RanTx /\ call.src.present /\ wire # <<>> /\ wire[1].ok /\ DataSends # <<>>
  /\ \A i \in 1..Len(DataSends) : DataSends[i].ok
  /\ SumLen(DataSends) = usbHdrLen + call.writeSize
\* The payload bytes that travel in the first packet, with the header.
FirstPayload == Min((IF call.sep THEN usbHdrLen ELSE sendMaxPacketSize) - usbHdrLen, call.writeSize)

\* C13 as stated: when the payload size is a multiple of the packet size,
\* the data-out phase ends with a zero-length packet.
C13_MultipleGetsZeroLength ==
  (DataOutDone /\ call.writeSize % sendMaxPacketSize = 0) => LastSend.data = <<>>
\* C13, amended: the data-out phase ends with a zero-length packet exactly
\* when the whole payload travelled in the first packet or what followed
\* the first packet is a multiple of the packet size; at most one is sent;
\* and the last transfer is never a positive multiple of the packet size,
\* so the phase finishes with a short packet.
C13_DataOutEndsShort ==
  DataOutDone =>
    /\ LastSend.data = <<>> <=> (call.writeSize = FirstPayload \/ (call.writeSize - FirstPayload) % sendMaxPacketSize = 0)
    /\ \A i \in 1..(Len(DataSends) - 1) : DataSends[i].data # <<>>
    /\ LastSend.data = <<>> \/ Len(LastSend.data) % sendMaxPacketSize # 0
\* A payload of one packet size with the header sent on its own: the
\* header, the payload, the zero-length packet.
C13_Witness ==
  /\ DataOutDone /\ call.sep /\ call.writeSize = sendMaxPacketSize
  /\ Len(DataSends) = 3 /\ Len(DataSends[2].data) = sendMaxPacketSize /\ LastSend.data = <<>> /\ ret = NoErr

(***************************************************************************)
(* C14.  What bulkRead hands to the sink.                                  *)
(***************************************************************************)
\* The last call read a DATA packet that filled the packet, and so went on
\* to bulkRead.
InBulkRead ==
  /\ RanTx /\ wire # <<>> /\ wire[1].ok /\ Len(TxFetches) >= 2
  /\ HasHeader(FirstPkt) /\ PktType(FirstPkt) = USB_CONTAINER_DATA /\ Len(FirstPkt.data) = fetchMaxPacketSize
FirstRest == SubSeq(FirstPkt.data, usbHdrLen + 1, Len(FirstPkt.data))
\* The reads of bulkRead's loop are the fetches 2..LoopEnd: full buffers,
\* then the first read that is short or fails.
LoopEnd == CHOOSE k \in 2..Len(TxFetches) : (~TxFetches[k].ok \/ Len(TxFetches[k].data) < rwBufSize) /\ (\A j \in 2..(k - 1) : TxFetches[j].ok /\ Len(TxFetches[j].data) = rwBufSize)
RECURSIVE Concat(_)
Concat(evs) == IF evs = <<>> THEN <<>> ELSE (IF Head(evs).ok THEN Head(evs).data ELSE <<>>) \o Concat(Tail(evs))
\* The bytes the loop received without a failure, in arrival order.
LoopBytes == Concat(SubSeq(TxFetches, 2, LoopEnd))
\* bulkRead applied to what the device sent in the last call.
DataReads == [i \in 1..Len(TxFetches) |-> Rd(TxFetches[i].data, TxFetches[i].ok)]
LastBulkRead == bulkRead(DataReads, 2)

\* C14: bulkRead writes to the sink the bytes of every read of its loop up
\* to and including the first short one, in arrival order, each once, and
\* nothing of what it reads after that; the count it returns is the number
\* of bytes it wrote.  The caller's sink holds the rest of the first packet
\* followed by these bytes.
C14_BulkReadAppendsAll ==
  InBulkRead =>
    /\ LastBulkRead.out = LoopBytes
    /\ LastBulkRead.n = Len(LoopBytes)
    /\ call.hasDest => sink = FirstRest \o LoopBytes
\* A full buffer and a short read, then the response.
C14_Witness ==
  /\ InBulkRead /\ call.hasDest /\ LoopEnd = 3 /\ Len(TxFetches) = 4 /\ TxFetches[3].ok
  /\ Len(sink) = FullPayload + rwBufSize + 3 /\ sink = Bytes(1, FullPayload + rwBufSize + 3) /\ ret = NoErr

(***************************************************************************)
(* C15.  The read after the loop.                                          *)
(***************************************************************************)
\* The reads bulkRead made after its loop.
ExtraReads == LastBulkRead.next - 1 - LoopEnd
\* The fetches of the transaction are those of bulkRead, and one for the
\* response unless bulkRead failed or its last packet is taken for it.
FetchesAccounted == Len(TxFetches) = LastBulkRead.next - 1 + (IF LastBulkRead.err = NoErr /\ LastBulkRead.lastPacket = <<>> THEN 1 ELSE 0)

\* C15 as stated: after the loop bulkRead reads once more if the count of
\* bytes it wrote is a multiple of the packet size, and not at all if not.
C15_ExtraReadIffTotalMultiple ==
  InBulkRead => ExtraReads = (IF LastBulkRead.n % fetchMaxPacketSize = 0 THEN 1 ELSE 0)
\* C15, amended: after the loop bulkRead reads once more if the last read
\* of the loop, failed or not, returned a multiple of the packet size, and
\* not at all if not; when no read of the loop failed, that is the case
\* exactly if the count of bytes written is a multiple of the packet size.
C15_ExtraReadIffLastReadMultiple ==
  InBulkRead =>
    /\ ExtraReads = (IF Len(TxFetches[LoopEnd].data) % fetchMaxPacketSize = 0 THEN 1 ELSE 0)
    /\ TxFetches[LoopEnd].ok => (ExtraReads = 1 <=> LastBulkRead.n % fetchMaxPacketSize = 0)
    /\ FetchesAccounted
\* A last read of one packet size, a zero-length read after the loop, then
\* the response.
C15_Witness ==
  /\ InBulkRead /\ TxFetches[LoopEnd].ok /\ Len(TxFetches[LoopEnd].data) = fetchMaxPacketSize
  /\ ExtraReads = 1 /\ Len(TxFetches) = LoopEnd + 2 /\ TxFetches[LoopEnd + 1].ok /\ TxFetches[LoopEnd + 1].data = <<>>
  /\ ret = NoErr

(***************************************************************************)
(* C16.  A response that arrives in the read after the loop.               *)
(***************************************************************************)
\* The read after the loop succeeded and brought bytes / brought none.
ExtraPacket == InBulkRead /\ ExtraReads = 1 /\ TxFetches[LoopEnd + 1].ok /\ TxFetches[LoopEnd + 1].data # <<>>
ExtraEmpty == InBulkRead /\ ExtraReads = 1 /\ TxFetches[LoopEnd + 1].ok /\ TxFetches[LoopEnd + 1].data = <<>>
\* The packet is a RESPONSE packet as long as its header declares.
WellFormed(ev) == HasHeader(ev) /\ PktType(ev) = USB_CONTAINER_RESPONSE /\ PktLength(ev) = Len(ev.data) /\ (PktLength(ev) - usbHdrLen) % 4 = 0
\* What the call returns for a well-formed response to a call with a sink.
Verdict(ev) ==
  IF PktCode(ev) # RC_OK THEN RCError(PktCode(ev))
  ELSE IF pre.session.active /\ PktTid(ev) # WireTid(wire[1]) THEN SyncError("transaction ID mismatch")
  ELSE NoErr

\* C16: bytes brought by the read after the loop are the response: they are
\* the last read of the transaction, they are not written to the sink, and
\* a well-formed response among them is decoded to its code, transaction ID
\* and parameters, as it is when it is read on its own after an empty read.
C16_ExtraPacketIsResponse ==
  /\ ExtraPacket => /\ Len(TxFetches) = LoopEnd + 1
                     /\ call.hasDest => sink = FirstRest \o LoopBytes
  /\ ExtraEmpty => Len(TxFetches) = LoopEnd + 2
  /\ ((ExtraPacket \/ (ExtraEmpty /\ LastPkt.ok)) /\ call.hasDest /\ WellFormed(LastPkt)) =>
       /\ ret = Verdict(LastPkt)
       /\ rep.Code = PktCode(LastPkt) /\ rep.TransactionID = PktTid(LastPkt)
       /\ rep.Param = PktParams(LastPkt)
\* C16 where it fails: the read after the loop brings an OK response with
\* one parameter; the call returns nil with another value as the parameter.
C16_Witness ==
  /\ ExtraPacket /\ call.hasDest /\ WellFormed(LastPkt) /\ PktCode(LastPkt) = RC_OK
  /\ PktParams(LastPkt) = <<7>> /\ ret = NoErr /\ rep.Param # <<7>> /\ h

(***************************************************************************)
(* C17.  The command packet.                                               *)
(***************************************************************************)
\* C17: the first transfer of a RunTransaction whose request has k <= 5
\* parameters is the command packet: 12 + 4k bytes, the header's length
\* field 12 + 4k, type COMMAND, the request's code, the transaction ID of
\* the request (the session's counter, or the request's own ID when there
\* is no session), then the k parameters in the request's order; a request
\* with more than 5 parameters fails in the encoding and nothing is sent.
C17_CommandPacketLayout ==
  RanTx =>
    IF Len(call.req.Param) <= 5
    THEN /\ wire # <<>> /\ IsSend(wire[1])
         /\ Len(wire[1].data) = usbHdrLen + 4 * Len(call.req.Param)
         /\ PktLength(wire[1]) = usbHdrLen + 4 * Len(call.req.Param)
         /\ PktType(wire[1]) = USB_CONTAINER_COMMAND
         /\ PktCode(wire[1]) = call.req.Code
         /\ PktTid(wire[1]) = (IF pre.session.active THEN pre.session.tid ELSE call.req.TransactionID)
         /\ \A i \in 1..Len(call.req.Param) : Uint32(wire[1].data, usbHdrLen + 4 * i - 3) = call.req.Param[i]
    ELSE ret.kind = "panic" /\ wire = <<>>
\* A request with five parameters, sent under a session and answered OK.
C17_Witness ==
  /\ RanTx /\ Len(call.req.Param) = 5 /\ pre.session.active /\ Len(wire[1].data) = usbHdrLen + 20
  /\ PktParams(wire[1]) = call.req.Param /\ ret = NoErr

(***************************************************************************)
(* C18.  Configure's recovery is bounded.                                  *)
(***************************************************************************)
Count(labels, l) == Cardinality({i \in 1..Len(labels) : labels[i] = l})
\* The wait of the recovery, if the last call made one, and what the call
\* did before and after it.
Slept == \E i \in 1..Len(wire) : WireLabels[i] = "sleep"
SleepAt == CHOOSE i \in 1..Len(wire) : WireLabels[i] = "sleep"
BeforeSleep == IF Slept THEN SubSeq(WireLabels, 1, SleepAt - 1) ELSE WireLabels
AfterSleep == IF Slept THEN SubSeq(WireLabels, SleepAt + 1, Len(wire)) ELSE <<>>

\* C18: one Configure call opens the device at most once and sends at most
\* two OpenSession commands before it turns to the recovery; it makes at
\* most one recovery (one wait, one close of the handle before it), and
\* after the wait it opens the device once and sends at most one
\* OpenSession command; the call then returns nil with the session open, or
\* the error of the stage that failed.
C18_ConfigureIsBounded ==
  call.op = "Configure" =>
    /\ Count(WireLabels, "sleep") <= 1 /\ Count(WireLabels, "open") <= 2 /\ Count(WireLabels, "OpenSession") <= 3
    /\ Count(BeforeSleep, "open") <= 1 /\ Count(BeforeSleep, "OpenSession") <= 2 /\ Count(BeforeSleep, "closeHandle") <= 1
    /\ Slept => /\ AfterSleep # <<>> /\ AfterSleep[1] = "open"
                /\ Count(AfterSleep, "open") = 1 /\ Count(AfterSleep, "OpenSession") <= 1
                /\ ret \in {NoErr, PlainError("opening after reset"), PlainError("openSession after reset")}
                /\ ret = NoErr => (h /\ session.active /\ AfterSleep[Len(AfterSleep)] = "fetch")
                /\ Count(AfterSleep, "OpenSession") = 0 => ret # NoErr
\* Three OpenSession commands in one call: "already opened", a failure after
\* the CloseSession, and a failure after the reopening, which is returned.
C18_Witness ==
  /\ call.op = "Configure" /\ Count(WireLabels, "OpenSession") = 3 /\ Count(WireLabels, "sleep") = 1
  /\ Count(WireLabels, "open") = 2 /\ ret = PlainError("openSession after reset")

(***************************************************************************)
(* C19.  RunTransaction on a closed connection.                            *)
(***************************************************************************)
\* C19: RunTransaction on a closed connection returns the "not open" error,
\* makes no transfer, hands nothing to the caller and leaves the connection
\* as it was, the session's counter included; and no call on a closed
\* connection other than Open and Configure puts anything on the wire.
C19_ClosedRunTransactionIsInert ==
  /\ (call.op = "RunTransaction" /\ ~pre.h) =>
       (ret = PlainError("device is not open") /\ wire = <<>> /\ rep = EmptyContainer /\ sink = <<>> /\ Conn = pre)
  /\ (~pre.h /\ call.op \notin {"init", "Open", "Configure"}) => wire = <<>>
\* The call after a fatal error: the connection is closed, the session of
\* the failed transaction is still there, and its counter stays.
C19_Witness ==
  /\ call.op = "RunTransaction" /\ ~pre.h /\ pre.session.active /\ pre.session.tid > 1
  /\ ret = PlainError("device is not open") /\ session = pre.session /\ wire = <<>>

(***************************************************************************)
(* C20.  The connection after a failed Open.                               *)
(***************************************************************************)
\* C20: an Open that returns an error on a closed connection leaves it
\* closed, with no handle and the interface not claimed; and the interface
\* is marked claimed only while the connection is open.
C20_FailedOpenLeavesClosed ==
  /\ (call.op = "Open" /\ ~pre.h /\ ret # NoErr) => (~h /\ ~claimed)
  /\ claimed => h
\* C20 where it fails: the claim of the interface fails, Open returns the
\* error and keeps the handle.
C20_Witness == call.op = "Open" /\ ~pre.h /\ ~pre.claimed /\ ret = PlainError("failed to claim") /\ h /\ ~claimed
====
